---- MODULE Spec2Model ----
(***************************************************************************)
(* Tutorial generator: the React client (src/src/App.js) and the Express   *)
(* proxy (server.js, src/unnamed/part_000) in front of the upstream        *)
(* generative-language API.                                                *)
(*                                                                         *)
(* Text is a sequence of tokens.  BT (a backtick), SP and NL are single    *)
(* characters;                                                             *)
(* every other token is an opaque run of characters holding no backtick   *)
(* and no white space at its ends that the regular expressions could see.  *)
(* The empty JavaScript string '' is the empty sequence.                   *)
(***************************************************************************)
EXTENDS Integers, Sequences, FiniteSets, TLC

\* Number of HTTP exchanges (requests reaching or aimed at the proxy) in a run.
MaxReqs == 2

Slots == 1..MaxReqs

-----------------------------------------------------------------------------
(* Strings                                                                  *)

Empty == << >>
BT == "backtick"
NL == "\n"
SP == " "
Whitespace == {SP, NL}

\* server.js:122
ServerFallback == <<"Sorry, could not generate tutorial.">>
\* App.js:50
ClientFallback == <<"<p>Sorry, I could not generate a tutorial.</p>">>
\* server.js:28
MsgKeyMissing == "API key missing"
\* server.js:70
MsgKeyNotConfigured == "API key not configured on server. Get a free key at: https://ai.google.dev"
\* server.js:114
MsgApiRequestFailed == "API request failed"
\* server.js:134
MsgInternal == "Internal server error"
\* App.js:47
MsgBackendFailed == "Backend request failed"
\* messages of the errors the runtime throws
MsgFetchFailed == "fetch failed"
MsgSyntaxError == "Unexpected token in JSON"
MsgTypeError == "Cannot read properties of undefined"
MsgBodyRead == "terminated"

Fence == <<BT, BT, BT>>
FencedText == Fence \o <<"html", NL, "<h1>X</h1>", NL>> \o Fence
\* a fence on a line of its own in the middle of the text
InnerFenceText == <<"<p>a</p>", NL>> \o Fence \o <<NL, "<p>b</p>">>

\* String.prototype.trim: drop leading and trailing white space
RECURSIVE TrimLeft(_)
TrimLeft(s) ==
  IF s # Empty /\ Head(s) \in Whitespace THEN TrimLeft(Tail(s)) ELSE s

RECURSIVE TrimRight(_)
TrimRight(s) ==
  IF s # Empty /\ s[Len(s)] \in Whitespace
  THEN TrimRight(SubSeq(s, 1, Len(s) - 1)) ELSE s

Trim(s) == TrimRight(TrimLeft(s))

StartsWith(s, p) == Len(s) >= Len(p) /\ SubSeq(s, 1, Len(p)) = p

Drop(s, n) == SubSeq(s, n + 1, Len(s))

\* s.replace(/pat\n?/g, empty string): scan left to right, delete each match of pat
\* together with one following newline when there is one
RECURSIVE ReplaceAll(_, _)
ReplaceAll(s, pat) ==
  IF s = Empty THEN Empty
  ELSE IF StartsWith(s, pat)
       THEN LET rest == Drop(s, Len(pat))
            IN  IF rest # Empty /\ Head(rest) = NL
                THEN ReplaceAll(Tail(rest), pat)
                ELSE ReplaceAll(rest, pat)
       ELSE <<Head(s)>> \o ReplaceAll(Tail(s), pat)

\* the clean-up without the final trim()
CleanHtmlNoTrim(s) == ReplaceAll(ReplaceAll(s, Fence \o <<"html">>), Fence)

\* App.js:55
CleanHtml(s) == Trim(ReplaceAll(ReplaceAll(s, Fence \o <<"html">>), Fence))

-----------------------------------------------------------------------------
(* Upstream API responses                                                   *)

Part(hasText, text) == [hasText |-> hasText, text |-> text]

Cand(hasContent, hasParts, parts) ==
  [hasContent |-> hasContent, hasParts |-> hasParts, parts |-> parts]

\* a response body: kind "json" parses, "text" does not, "readError" fails
\* while the body is read
UpBody(kind, isNull, hasError, hasMessage, message, hasCandidates, candidates) ==
  [kind |-> kind, isNull |-> isNull, hasError |-> hasError,
   hasMessage |-> hasMessage, message |-> message,
   hasCandidates |-> hasCandidates, candidates |-> candidates]

UpObject(hasError, hasMessage, message, hasCandidates, candidates) ==
  UpBody("json", FALSE, hasError, hasMessage, message, hasCandidates, candidates)

NoUpBody == UpBody("none", FALSE, FALSE, FALSE, "", FALSE, << >>)
UpText == UpBody("text", FALSE, FALSE, FALSE, "", FALSE, << >>)
UpReadError == UpBody("readError", FALSE, FALSE, FALSE, "", FALSE, << >>)
UpNull == UpBody("json", TRUE, FALSE, FALSE, "", FALSE, << >>)
UpEmptyObject == UpObject(FALSE, FALSE, "", FALSE, << >>)
UpErrorNoMessage == UpObject(TRUE, FALSE, "", FALSE, << >>)
UpErrorEmptyMessage == UpObject(TRUE, TRUE, "", FALSE, << >>)
UpErrorQuota == UpObject(TRUE, TRUE, "Quota exceeded", FALSE, << >>)
UpCandidates(cs) == UpObject(FALSE, FALSE, "", TRUE, cs)
UpWithText(t) == UpCandidates(<<Cand(TRUE, TRUE, <<Part(TRUE, t)>>)>>)

\* texts the upstream model returns
ModelTexts == {Empty, <<"<h1>X</h1>">>, <<SP>>, FencedText, InnerFenceText}

UpstreamBodies ==
  {UpText, UpNull, UpEmptyObject,
   UpErrorNoMessage, UpErrorEmptyMessage, UpErrorQuota,
   UpCandidates(<< >>),
   UpCandidates(<<Cand(FALSE, FALSE, << >>)>>),
   UpCandidates(<<Cand(TRUE, FALSE, << >>)>>),
   UpCandidates(<<Cand(TRUE, TRUE, << >>)>>),
   UpCandidates(<<Cand(TRUE, TRUE, <<Part(FALSE, Empty)>>)>>)}
  \cup {UpWithText(t) : t \in ModelTexts}

\* server.js:121-122 hands the text on as it is: the texts that differ only
\* in what the client's cleaning makes of them are left out for the proxy
\* on its own
ProxyBodies ==
  UpstreamBodies \ {UpWithText(<<SP>>), UpWithText(InnerFenceText)}

\* server.js:110-122: a non-success body is read for error.message only
\* and a success body for its candidates only; of the bodies that differ
\* in the part that is not read, one stands for all
ProxyOkBodies == ProxyBodies \ {UpErrorNoMessage, UpErrorEmptyMessage}

ProxyErrorBodies ==
  {UpText, UpNull, UpEmptyObject,
   UpErrorNoMessage, UpErrorEmptyMessage, UpErrorQuota,
   UpWithText(<<"<h1>X</h1>">>)}

UpstreamStatuses == {200, 429}

\* bodies the upstream model listing answers with
ListBodies == {UpText, UpReadError, UpEmptyObject, UpErrorQuota}

\* response.ok
ResponseOk(status) == status >= 200 /\ status <= 299


-----------------------------------------------------------------------------
(* Requests to and responses of the proxy                                   *)

\* req.body after express.json(): undefined, or an object with or without
\* the field "request"
ReqBody(defined, hasRequest, request) ==
  [defined |-> defined, hasRequest |-> hasRequest, request |-> request]

NoReqBody == ReqBody(FALSE, FALSE, Empty)

\* topics typed by users
Topics == {Empty, <<SP>>, <<"a">>}

\* bodies other callers post
GenBodies ==
  {NoReqBody, ReqBody(TRUE, FALSE, Empty),
   ReqBody(TRUE, TRUE, <<"a">>), ReqBody(TRUE, TRUE, <<"b">>)}

Block(type, text) == [type |-> type, text |-> text]

\* an HTTP response of the proxy (or of whatever answers the client):
\* kind "error" is {error}, "content" is {content}, "passthrough" is the
\* upstream JSON, "raw" is {raw}, "object" is {} and "text" is not JSON
Resp(status, kind, error, content, up) ==
  [status |-> status, kind |-> kind, error |-> error,
   content |-> content, up |-> up]

NoResp == Resp(0, "none", "", << >>, NoUpBody)

ErrorResp(status, msg) == Resp(status, "error", msg, << >>, NoUpBody)

\* server.js:124-129; res.json answers 200 unless res.status was called
ContentResp(text) ==
  Resp(200, "content", "", <<Block("text", text)>>, NoUpBody)

\* server.js:131-136
CatchResp(msg) == ErrorResp(500, IF msg # "" THEN msg ELSE MsgInternal)

\* String(err): the name of the error, a colon and its message
StringOfError(msg) ==
  CASE msg = MsgFetchFailed -> "TypeError: fetch failed"
    [] msg = MsgBodyRead -> "TypeError: terminated"
    [] OTHER -> "Error"

\* server.js:53-56
ListCatchResp(msg) == ErrorResp(500, StringOfError(msg))

\* outcome of an expression that may throw
Value(v) == [threw |-> FALSE, msg |-> "", val |-> v]
Throw(msg) == [threw |-> TRUE, msg |-> msg, val |-> Empty]

\* await response.json()
ReadJson(b) ==
  CASE b.kind = "readError" -> Throw(MsgBodyRead)
    [] b.kind = "text" -> Throw(MsgSyntaxError)
    [] OTHER -> Value(Empty)

\* server.js:114  errorData.error?.message || 'API request failed'
ErrorText(errorData) ==
  IF errorData.isNull THEN Throw(MsgTypeError)
  ELSE IF errorData.hasError /\ errorData.hasMessage /\ errorData.message # ""
       THEN [threw |-> FALSE, msg |-> errorData.message, val |-> Empty]
       ELSE [threw |-> FALSE, msg |-> MsgApiRequestFailed, val |-> Empty]

\* a ?? b: the empty string is kept
OrElseNullish(text, fallback) == text

\* a || b on strings: the empty string is falsy
OrElse(text, fallback) == IF text # Empty THEN text ELSE fallback

\* data.candidates[0].content?.parts[0]?.text, no ?. after candidates[0]
TutorialTextStrict(data) ==
  IF data.isNull \/ ~data.hasCandidates THEN Throw(MsgTypeError)
  ELSE IF Len(data.candidates) = 0 THEN Throw(MsgTypeError)
  ELSE LET c == data.candidates[1]
       IN  IF ~c.hasContent THEN Value(ServerFallback)
           ELSE IF ~c.hasParts THEN Throw(MsgTypeError)
           ELSE IF Len(c.parts) = 0 THEN Value(ServerFallback)
           ELSE IF ~c.parts[1].hasText THEN Value(ServerFallback)
           ELSE Value(IF c.parts[1].text # Empty THEN c.parts[1].text
                      ELSE ServerFallback)

\* server.js:121-122
\* data.candidates[0]?.content?.parts[0]?.text || 'Sorry, ...'
TutorialText(data) ==
  IF data.isNull \/ ~data.hasCandidates THEN Throw(MsgTypeError)
  ELSE IF Len(data.candidates) = 0 THEN Value(ServerFallback)
  ELSE LET c == data.candidates[1]
       IN  IF ~c.hasContent THEN Value(ServerFallback)
           ELSE IF ~c.hasParts THEN Throw(MsgTypeError)
           ELSE IF Len(c.parts) = 0 THEN Value(ServerFallback)
           ELSE IF ~c.parts[1].hasText THEN Value(ServerFallback)
           ELSE Value(OrElse(c.parts[1].text, ServerFallback))

\* server.js:110-136: the answer once the upstream status and body are in
GenAnswer(status, b) ==
  IF ~ResponseOk(status)
  THEN IF ReadJson(b).threw THEN CatchResp(ReadJson(b).msg)
       ELSE IF ErrorText(b).threw THEN CatchResp(ErrorText(b).msg)
       ELSE ErrorResp(status, ErrorText(b).msg)
  ELSE IF ReadJson(b).threw THEN CatchResp(ReadJson(b).msg)
       ELSE IF TutorialText(b).threw THEN CatchResp(TutorialText(b).msg)
       ELSE ContentResp(TutorialText(b).val)

\* JSON.parse without its own try: a body that does not parse goes to the
\* outer catch
ListAnswerNoInnerTry(b) ==
  IF b.kind = "readError" THEN ListCatchResp(MsgBodyRead)
  ELSE IF b.kind = "text" THEN ListCatchResp(MsgSyntaxError)
  ELSE Resp(200, "passthrough", "", << >>, b)

\* server.js:40-56
ListAnswer(b) ==
  IF b.kind = "readError" THEN ListCatchResp(MsgBodyRead)
  ELSE IF b.kind = "text" THEN Resp(200, "raw", "", << >>, b)
  ELSE Resp(200, "passthrough", "", << >>, b)

\* an outbound call to the upstream API
Call(endpoint, key, topic) ==
  [endpoint |-> endpoint, key |-> key, topic |-> topic]

\* server.js:88: the topic interpolated into the prompt
PromptTopic(b) == IF b.hasRequest THEN b.request ELSE <<"undefined">>


-----------------------------------------------------------------------------
(* The client's view of a response                                          *)

\* the bare message of the error, without the fixed text around it
ErrorMessageBare(msg) == <<msg>>

\* App.js:62
ErrorMessage(msg) == <<"Error: ", msg, ". Check the browser console for details.">>

\* App.js:63
ErrorHtml(msg) ==
  <<"<p style=\"color: #ef4444;\">">> \o ErrorMessage(msg) \o <<"</p>">>

\* data.content.find(block => block.type === 'text')?.text
RECURSIVE FindText(_)
FindText(blocks) ==
  IF blocks = << >> THEN Empty
  ELSE IF Head(blocks).type = "text" THEN Head(blocks).text
  ELSE FindText(Tail(blocks))

\* App.js:44-57: the html to render, or the error thrown on the way
ClientResult(r) ==
  IF r.kind = "text" THEN Throw(MsgSyntaxError)
  ELSE IF ~ResponseOk(r.status)
       THEN Throw(IF r.kind = "error" /\ r.error # "" THEN r.error
                  ELSE MsgBackendFailed)
       ELSE IF r.kind # "content" THEN Throw(MsgTypeError)
       ELSE Value(CleanHtml(OrElse(FindText(r.content), ClientFallback)))

\* answers of something other than this proxy listening on the port
ForeignResponses ==
  {Resp(200, "text", "", << >>, NoUpBody),
   Resp(200, "object", "", << >>, NoUpBody),
   Resp(200, "content", "", << >>, NoUpBody),
   Resp(500, "object", "", << >>, NoUpBody)}

-----------------------------------------------------------------------------
(* State                                                                    *)

VARIABLES
  apiKey,    \* process.env.GEMINI_API_KEY, "" when not set
  next,      \* the next unused exchange
  pc,        \* per exchange: where the proxy's handler stands
  kind,      \* per exchange: "gen" or "list"
  body,      \* per exchange: req.body
  upStatus,  \* per exchange: status of the upstream response, 0 before it
  upBody,    \* per exchange: body of the upstream response
  fetches,   \* per exchange: the outbound calls the handler issued
  resp,      \* per exchange: the responses the handler sent
  request,   \* client: the topic in the input field
  tutorial,  \* client: the rendered html
  loading,   \* client: the loading flag
  error,     \* client: the error banner
  cpc,       \* per exchange: where the client's generateTutorial stands
  cresp,     \* per exchange: the response the client's fetch resolved with
  event      \* what the last client step was: a submit attempt that was
             \* "accepted", found the topic "empty" or was "ignored" by a
             \* disabled control or a busy client, or some "other" step

proxyVars == <<next, pc, kind, body, upStatus, upBody, fetches, resp>>
viewVars == <<request, tutorial, loading, error>>
clientVars == <<request, tutorial, loading, error, cpc, cresp, event>>
vars == <<apiKey, next, pc, kind, body, upStatus, upBody, fetches, resp,
          request, tutorial, loading, error, cpc, cresp, event>>

Init ==
  /\ apiKey \in {"", "key"}
  /\ next = 1
  /\ pc = [i \in Slots |-> "unused"]
  /\ kind = [i \in Slots |-> "none"]
  /\ body = [i \in Slots |-> NoReqBody]
  /\ upStatus = [i \in Slots |-> 0]
  /\ upBody = [i \in Slots |-> NoUpBody]
  /\ fetches = [i \in Slots |-> << >>]
  /\ resp = [i \in Slots |-> << >>]
  /\ request = Empty
  /\ tutorial = Empty
  /\ loading = FALSE
  /\ error = Empty
  /\ cpc = [i \in Slots |-> "none"]
  /\ cresp = [i \in Slots |-> NoResp]
  /\ event = "other"


-----------------------------------------------------------------------------
(* The proxy                                                                *)

\* the check of the key left out
KeyMissingNever == FALSE

\* server.js:26, 67: !apiKey
KeyMissing == apiKey = ""

\* res.status(..).json(..): one more response on exchange i
Respond(i, r) ==
  /\ resp' = [resp EXCEPT ![i] = Append(@, r)]
  /\ pc' = [pc EXCEPT ![i] = "done"]

\* some other caller than the client sends a request to the proxy
CallerSends(i, k, b) ==
  /\ i = next
  /\ i <= MaxReqs
  /\ next' = next + 1
  /\ pc' = [pc EXCEPT ![i] = "sent"]
  /\ kind' = [kind EXCEPT ![i] = k]
  /\ body' = [body EXCEPT ![i] = b]
  /\ UNCHANGED <<apiKey, upStatus, upBody, fetches, resp>>
  /\ UNCHANGED clientVars

\* server.js:62-106: up to the await of fetch
GenStart(i) ==
  /\ pc[i] = "sent"
  /\ kind[i] = "gen"
  /\ IF KeyMissing
     THEN /\ Respond(i, ErrorResp(500, MsgKeyNotConfigured))
          /\ UNCHANGED fetches
     ELSE IF ~body[i].defined
     THEN /\ Respond(i, CatchResp(MsgTypeError))
          /\ UNCHANGED fetches
     ELSE /\ fetches' = [fetches EXCEPT ![i] =
               Append(@, Call("generateContent", apiKey, PromptTopic(body[i])))]
          /\ pc' = [pc EXCEPT ![i] = "awaitFetch"]
          /\ UNCHANGED resp
  /\ UNCHANGED <<apiKey, next, kind, body, upStatus, upBody>>
  /\ UNCHANGED clientVars

\* a failed outbound call tried once more before the catch answers
GenFetchRetries(i) ==
  /\ pc[i] = "awaitFetch"
  /\ kind[i] = "gen"
  /\ IF Len(fetches[i]) < 2
     THEN /\ fetches' = [fetches EXCEPT ![i] = Append(@, @[1])]
          /\ UNCHANGED <<pc, resp>>
     ELSE /\ Respond(i, CatchResp(MsgFetchFailed))
          /\ UNCHANGED fetches
  /\ UNCHANGED <<apiKey, next, kind, body, upStatus, upBody>>
  /\ UNCHANGED clientVars

\* the outbound call fails: server.js:131-136
GenFetchRejects(i) ==
  /\ pc[i] = "awaitFetch"
  /\ kind[i] = "gen"
  /\ Respond(i, CatchResp(MsgFetchFailed))
  /\ UNCHANGED <<apiKey, next, kind, body, upStatus, upBody, fetches>>
  /\ UNCHANGED clientVars

\* the outbound call resolves with a response: server.js:80-108
GenFetchResolves(i, status) ==
  /\ pc[i] = "awaitFetch"
  /\ kind[i] = "gen"
  /\ upStatus' = [upStatus EXCEPT ![i] = status]
  /\ pc' = [pc EXCEPT ![i] = "gotResponse"]
  /\ UNCHANGED <<apiKey, next, kind, body, upBody, fetches, resp>>
  /\ UNCHANGED clientVars

\* the upstream response kept in a variable of the module, which the
\* latest request to get a response overwrites
GenReadBodyShared(i, b) ==
  /\ pc[i] = "gotResponse"
  /\ kind[i] = "gen"
  /\ LET latest == CHOOSE j \in Slots :
                     /\ upStatus[j] # 0
                     /\ \A k \in Slots : k > j => upStatus[k] = 0
     IN  Respond(i, GenAnswer(upStatus[latest], b))
  /\ upBody' = [upBody EXCEPT ![i] = b]
  /\ UNCHANGED <<apiKey, next, kind, body, upStatus, fetches>>
  /\ UNCHANGED clientVars

\* the upstream body is in: server.js:110-136
GenReadBody(i, b) ==
  /\ pc[i] = "gotResponse"
  /\ kind[i] = "gen"
  /\ Respond(i, GenAnswer(upStatus[i], b))
  /\ upBody' = [upBody EXCEPT ![i] = b]
  /\ UNCHANGED <<apiKey, next, kind, body, upStatus, fetches>>
  /\ UNCHANGED clientVars

\* server.js:21-37: up to the await of fetch
ListStart(i) ==
  /\ pc[i] = "sent"
  /\ kind[i] = "list"
  /\ IF KeyMissing
     THEN /\ Respond(i, ErrorResp(500, MsgKeyMissing))
          /\ UNCHANGED fetches
     ELSE /\ fetches' = [fetches EXCEPT ![i] =
               Append(@, Call("models", apiKey, Empty))]
          /\ pc' = [pc EXCEPT ![i] = "awaitFetch"]
          /\ UNCHANGED resp
  /\ UNCHANGED <<apiKey, next, kind, body, upStatus, upBody>>
  /\ UNCHANGED clientVars

\* the rejection not caught: the handler ends without an answer
ListFetchUncaught(i) ==
  /\ pc[i] = "awaitFetch"
  /\ kind[i] = "list"
  /\ pc' = [pc EXCEPT ![i] = "done"]
  /\ UNCHANGED <<apiKey, next, kind, body, upStatus, upBody, fetches, resp>>
  /\ UNCHANGED clientVars

\* server.js:53-56
ListFetchRejects(i) ==
  /\ pc[i] = "awaitFetch"
  /\ kind[i] = "list"
  /\ Respond(i, ListCatchResp(MsgFetchFailed))
  /\ UNCHANGED <<apiKey, next, kind, body, upStatus, upBody, fetches>>
  /\ UNCHANGED clientVars

\* server.js:37-38: the status is logged and not looked at again
ListFetchResolves(i) ==
  /\ pc[i] = "awaitFetch"
  /\ kind[i] = "list"
  /\ pc' = [pc EXCEPT ![i] = "gotResponse"]
  /\ UNCHANGED <<apiKey, next, kind, body, upStatus, upBody, fetches, resp>>
  /\ UNCHANGED clientVars

\* server.js:40-56
ListReadBody(i, b) ==
  /\ pc[i] = "gotResponse"
  /\ kind[i] = "list"
  /\ Respond(i, ListAnswer(b))
  /\ upBody' = [upBody EXCEPT ![i] = b]
  /\ UNCHANGED <<apiKey, next, kind, body, upStatus, fetches>>
  /\ UNCHANGED clientVars

-----------------------------------------------------------------------------
(* The client                                                               *)

\* App.js:119
InputDisabled == loading

\* the button disabled on an empty topic only
ButtonDisabledEmptyOnly == Trim(request) = Empty

\* App.js:123
ButtonDisabled == loading \/ Trim(request) = Empty

\* the test of the topic left out
EmptyTopicNever == FALSE

\* App.js:22
EmptyTopic == Trim(request) = Empty

\* App.js:71
EnterAccepted(key) == key = "Enter" /\ ~loading

\* App.js:21-40: generateTutorial up to the await of fetch
GenerateTutorial ==
  IF EmptyTopic
  THEN /\ event' = "empty"
       /\ UNCHANGED <<tutorial, loading, error, cpc, cresp>>
       /\ UNCHANGED proxyVars
  ELSE /\ next <= MaxReqs
       /\ event' = "accepted"
       /\ loading' = TRUE
       /\ tutorial' = Empty
       /\ error' = Empty
       /\ cpc' = [cpc EXCEPT ![next] = "awaitFetch"]
       /\ pc' = [pc EXCEPT ![next] = "sent"]
       /\ kind' = [kind EXCEPT ![next] = "gen"]
       /\ body' = [body EXCEPT ![next] = ReqBody(TRUE, TRUE, request)]
       /\ next' = next + 1
       /\ UNCHANGED <<cresp, upStatus, upBody, fetches, resp>>

\* the event reaches no handler, or the handler does nothing
Ignored(submit) ==
  /\ event' = IF submit THEN "ignored" ELSE "other"
  /\ UNCHANGED <<tutorial, loading, error, cpc, cresp>>
  /\ UNCHANGED proxyVars

\* App.js:115: onChange of the input field
TypeRequest(v) ==
  /\ ~InputDisabled
  /\ request' = v
  /\ event' = "other"
  /\ UNCHANGED <<tutorial, loading, error, cpc, cresp, apiKey>>
  /\ UNCHANGED proxyVars

\* App.js:121-124: a click on the button
ClickButton ==
  /\ IF ButtonDisabled THEN Ignored(TRUE) ELSE GenerateTutorial
  /\ UNCHANGED <<request, apiKey>>

\* App.js:70-74, 116: a key pressed in the input field
PressKey(key) ==
  /\ IF InputDisabled THEN Ignored(key = "Enter")
     ELSE IF EnterAccepted(key) THEN GenerateTutorial
     ELSE Ignored(key = "Enter")
  /\ UNCHANGED <<request, apiKey>>

\* the catch without the finally: the loading flag is left as it is
FailNoFinally(i, msg) ==
  /\ tutorial' = ErrorHtml(msg)
  /\ error' = ErrorMessage(msg)
  /\ UNCHANGED loading
  /\ cpc' = [cpc EXCEPT ![i] = "done"]
  /\ cresp' = [cresp EXCEPT ![i] = NoResp]

\* App.js:58-67: catch and finally
Fail(i, msg) ==
  /\ tutorial' = ErrorHtml(msg)
  /\ error' = ErrorMessage(msg)
  /\ loading' = FALSE
  /\ cpc' = [cpc EXCEPT ![i] = "done"]
  /\ cresp' = [cresp EXCEPT ![i] = NoResp]

\* App.js:32: the fetch rejects (proxy unreachable, connection lost)
ClientFetchRejects(i) ==
  /\ cpc[i] = "awaitFetch"
  /\ Fail(i, MsgFetchFailed)
  /\ event' = "other"
  /\ UNCHANGED <<request, apiKey>>
  /\ UNCHANGED proxyVars

\* App.js:32-42: the fetch resolves with the proxy's response
ClientFetchResolves(i) ==
  /\ cpc[i] = "awaitFetch"
  /\ pc[i] = "done"
  /\ resp[i] # << >>
  /\ cresp' = [cresp EXCEPT ![i] = resp[i][1]]
  /\ cpc' = [cpc EXCEPT ![i] = "awaitJson"]
  /\ event' = "other"
  /\ UNCHANGED <<request, tutorial, loading, error, apiKey>>
  /\ UNCHANGED proxyVars

\* App.js:32-42: something else than this proxy answers the request
ClientFetchForeign(i, r) ==
  /\ cpc[i] = "awaitFetch"
  /\ pc[i] = "sent"
  /\ pc' = [pc EXCEPT ![i] = "lost"]
  /\ cresp' = [cresp EXCEPT ![i] = r]
  /\ cpc' = [cpc EXCEPT ![i] = "awaitJson"]
  /\ event' = "other"
  /\ UNCHANGED <<request, tutorial, loading, error, apiKey>>
  /\ UNCHANGED <<next, kind, body, upStatus, upBody, fetches, resp>>

\* App.js:44-67: from the await of response.json() to the end
ClientReadBody(i) ==
  /\ cpc[i] = "awaitJson"
  /\ IF ClientResult(cresp[i]).threw
     THEN Fail(i, ClientResult(cresp[i]).msg)
     ELSE /\ tutorial' = ClientResult(cresp[i]).val
          /\ loading' = FALSE
          /\ cpc' = [cpc EXCEPT ![i] = "done"]
          /\ cresp' = [cresp EXCEPT ![i] = NoResp]
          /\ UNCHANGED error
  /\ event' = "other"
  /\ UNCHANGED <<request, apiKey>>
  /\ UNCHANGED proxyVars

-----------------------------------------------------------------------------

\* requests of other callers
CallerNext ==
  \/ \E i \in Slots, b \in GenBodies : CallerSends(i, "gen", b)
  \/ \E i \in Slots : CallerSends(i, "list", NoReqBody)

\* the handlers of the proxy and the upstream API
HandlerNext ==
  \/ \E i \in Slots : GenStart(i)
  \/ \E i \in Slots : GenFetchRejects(i)
  \/ \E i \in Slots, st \in UpstreamStatuses : GenFetchResolves(i, st)
  \/ \E i \in Slots, b \in UpstreamBodies : GenReadBody(i, b)
  \/ \E i \in Slots : ListStart(i)
  \/ \E i \in Slots : ListFetchRejects(i)
  \/ \E i \in Slots : ListFetchResolves(i)
  \/ \E i \in Slots, b \in ListBodies : ListReadBody(i, b)

\* the user and the client
ViewNext ==
  \/ \E v \in Topics : TypeRequest(v)
  \/ ClickButton
  \/ \E key \in {"Enter", "a"} : PressKey(key)
  \/ \E i \in Slots : ClientFetchRejects(i)
  \/ \E i \in Slots : ClientFetchResolves(i)
  \/ \E i \in Slots, r \in ForeignResponses : ClientFetchForeign(i, r)
  \/ \E i \in Slots : ClientReadBody(i)

Next == CallerNext \/ HandlerNext \/ ViewNext

\* the whole system
Spec == Init /\ [][Next]_vars

\* the proxy serving any callers, the client left alone
ProxyNext ==
  \/ CallerNext
  \/ \E i \in Slots : GenStart(i)
  \/ \E i \in Slots : GenFetchRejects(i)
  \/ \E i \in Slots, st \in UpstreamStatuses : GenFetchResolves(i, st)
  \/ \E i \in Slots, b \in ProxyOkBodies :
       ResponseOk(upStatus[i]) /\ GenReadBody(i, b)
  \/ \E i \in Slots, b \in ProxyErrorBodies :
       ~ResponseOk(upStatus[i]) /\ GenReadBody(i, b)
  \/ \E i \in Slots : ListStart(i)
  \/ \E i \in Slots : ListFetchRejects(i)
  \/ \E i \in Slots : ListFetchResolves(i)
  \/ \E i \in Slots, b \in ListBodies : ListReadBody(i, b)

ProxySpec == Init /\ [][ProxyNext]_vars

\* the client and the proxy serving it, no other callers
ClientNext ==
  \/ \E i \in Slots : GenStart(i)
  \/ \E i \in Slots : GenFetchRejects(i)
  \/ \E i \in Slots, st \in UpstreamStatuses : GenFetchResolves(i, st)
  \/ \E i \in Slots, b \in UpstreamBodies : GenReadBody(i, b)
  \/ ViewNext

ClientSpec == Init /\ [][ClientNext]_vars

TypeOK ==
  /\ next \in 1..(MaxReqs + 1)
  /\ loading \in BOOLEAN
  /\ \A i \in Slots : Len(resp[i]) <= 1

-----------------------------------------------------------------------------
(* Properties                                                               *)

Done(i) == pc[i] = "done"

\* the exchange was handled by the generate-tutorial handler
GenHandled(i) == kind[i] = "gen" /\ pc[i] \notin {"unused", "sent", "lost"}

ListHandled(i) == kind[i] = "list" /\ pc[i] \notin {"unused", "sent", "lost"}

\* C1: without a configured key the generate-tutorial and the list-models
\* handler issue no outbound call and answer every request, whatever its
\* body, with status 500 and an {error} body.
C1_NoKeyNoUpstreamCall ==
  apiKey = "" =>
    \A i \in Slots :
      /\ fetches[i] = << >>
      /\ (GenHandled(i) \/ ListHandled(i)) =>
           /\ Done(i)
           /\ Len(resp[i]) = 1
           /\ resp[i][1].status = 500
           /\ resp[i][1].kind = "error"
           /\ resp[i][1].error # ""

\* both handlers have answered a request without a key, one of them a POST
\* with a topic
C1_Witness ==
  /\ apiKey = ""
  /\ \E i, j \in Slots :
       /\ kind[i] = "gen" /\ Done(i) /\ body[i].hasRequest
       /\ kind[j] = "list" /\ Done(j)

HasTopic(b) == b.defined /\ b.hasRequest /\ b.request # Empty

\* C2: with a key configured, a generate-tutorial request with a non-empty
\* topic has exactly one outbound call to the generation endpoint from the
\* moment the handler runs, through every outcome of that call: never a
\* second call, never an answer without the call.
C2_ExactlyOneCall ==
  \A i \in Slots :
    (apiKey # "" /\ GenHandled(i) /\ HasTopic(body[i])) =>
      /\ Len(fetches[i]) = 1
      /\ fetches[i][1].endpoint = "generateContent"
      /\ fetches[i][1].topic = body[i].request

\* one request answered after a network failure and one answered after an
\* upstream response, each with its single call
C2_Witness ==
  /\ apiKey # ""
  /\ \E i, j \in Slots :
       /\ kind[i] = "gen" /\ Done(i) /\ HasTopic(body[i])
       /\ upStatus[i] = 0 /\ Len(fetches[i]) = 1
       /\ kind[j] = "gen" /\ Done(j) /\ HasTopic(body[j])
       /\ upStatus[j] = 429 /\ upBody[j] = UpText /\ Len(fetches[j]) = 1

\* the message the claim expects for an upstream error body
ExpectedErrorText(b) ==
  IF b.kind = "json" /\ ~b.isNull /\ b.hasError /\ b.hasMessage /\ b.message # ""
  THEN b.message
  ELSE "API request failed"

\* C3: a non-success upstream status S is answered with status S and
\* {error: m}, m the upstream message, or the generic fallback message when
\* the upstream body does not parse; the status is S in both cases.
C3_UpstreamStatusKept ==
  \A i \in Slots :
    (kind[i] = "gen" /\ Done(i) /\ upStatus[i] # 0 /\ ~ResponseOk(upStatus[i])) =>
      /\ Len(resp[i]) = 1
      /\ resp[i][1].status = upStatus[i]
      /\ resp[i][1].kind = "error"
      /\ resp[i][1].error = ExpectedErrorText(upBody[i])

\* C4: an upstream success whose body holds zero candidates is answered
\* with a success status and the single text block "Sorry, could not
\* generate tutorial.", not with an error.
C4_ZeroCandidatesFallback ==
  \A i \in Slots :
    (kind[i] = "gen" /\ Done(i) /\ ResponseOk(upStatus[i])
       /\ upBody[i].kind = "json" /\ ~upBody[i].isNull
       /\ upBody[i].hasCandidates /\ upBody[i].candidates = << >>) =>
      /\ Len(resp[i]) = 1
      /\ resp[i][1].status = 200
      /\ resp[i][1].kind = "content"
      /\ resp[i][1].content =
           <<[type |-> "text", text |-> <<"Sorry, could not generate tutorial.">>]>>

C4_Witness ==
  \E i \in Slots :
    /\ kind[i] = "gen" /\ Done(i) /\ upStatus[i] = 200
    /\ upBody[i] = UpCandidates(<< >>)
    /\ resp[i] # << >>

\* the client's calls that have not run to their end
InFlight == {i \in Slots : cpc[i] \in {"awaitFetch", "awaitJson"}}

\* C5: the client has at most one generation call in flight; a click or an
\* Enter key while a call is in flight starts no further call.
C5_SingleFlight == Cardinality(InFlight) <= 1

\* a submit attempt was made while the call was in flight and was ignored
C5_Witness ==
  /\ event = "ignored"
  /\ loading
  /\ Cardinality(InFlight) = 1


\* C6: the loading flag set by a submission is cleared by the step that
\* completes the call, on the success path and on every failure path: once
\* no call is in flight the flag is clear and the controls are enabled.
C6_LoadingCleared ==
  InFlight = {} => (~loading /\ ~InputDisabled)

\* a call failed, the flag is clear, and a later submission was accepted and
\* completed too
C6_Witness ==
  /\ ~loading
  /\ error # Empty
  /\ \E i, j \in Slots : i # j /\ cpc[i] = "done" /\ cpc[j] = "done"

\* the outbound call of the exchange failed at the network
NetworkFailed(i) == Done(i) /\ fetches[i] # << >> /\ upBody[i] = NoUpBody

\* C7: a handled request has no response while its handler runs and
\* exactly one when it has ended, either the success payload or an
\* {error: string} body with an error status; a failed outbound call is
\* answered with status 500 and the error text.
C7_ExactlyOneResponse ==
  \A i \in Slots :
    /\ Len(resp[i]) <= 1
    /\ ~Done(i) => resp[i] = << >>
    /\ Done(i) =>
         /\ Len(resp[i]) = 1
         /\ \/ /\ resp[i][1].status = 200
               /\ resp[i][1].kind \in {"content", "passthrough", "raw"}
            \/ /\ resp[i][1].status >= 400
               /\ resp[i][1].kind = "error"
               /\ resp[i][1].error # ""
    /\ NetworkFailed(i) =>
         /\ resp[i][1].status = 500
         /\ resp[i][1].kind = "error"
         /\ resp[i][1].error \in {"fetch failed", "TypeError: fetch failed"}

\* both handlers have answered a request whose outbound call failed
C7_Witness ==
  \E i, j \in Slots :
    /\ kind[i] = "gen" /\ NetworkFailed(i)
    /\ kind[j] = "list" /\ NetworkFailed(j)

\* C8: a success answer of generate-tutorial holds exactly one block, of
\* type "text", with a non-empty text.
C8_OneNonEmptyTextBlock ==
  \A i \in Slots :
    (kind[i] = "gen" /\ Done(i) /\ resp[i] # << >> /\ ResponseOk(resp[i][1].status)) =>
      /\ resp[i][1].kind = "content"
      /\ Len(resp[i][1].content) = 1
      /\ resp[i][1].content[1].type = "text"
      /\ resp[i][1].content[1].text # << >>

\* the upstream text was empty and the answer carries the fallback; another
\* answer carries the upstream text
C8_Witness ==
  \E i, j \in Slots :
    /\ kind[i] = "gen" /\ Done(i) /\ upStatus[i] = 200
    /\ upBody[i] = UpWithText(Empty)
    /\ resp[i][1].content[1].text = ServerFallback
    /\ kind[j] = "gen" /\ Done(j) /\ upStatus[j] = 200
    /\ upBody[j] = UpWithText(FencedText)
    /\ resp[j][1].content[1].text = FencedText

\* C9: a click or an Enter key with an empty or white-space-only topic
\* issues no call and leaves loading, result and error as they were.
C9_EmptySubmitNoOp ==
  [][(Trim(request) = Empty /\ (ClickButton \/ PressKey("Enter")))
       => (UNCHANGED <<request, tutorial, loading, error, cpc, cresp>>
           /\ UNCHANGED proxyVars)]_vars

\* generateTutorial ran on a white-space-only topic after an earlier call
\* had left an error
C9_Witness ==
  /\ event = "empty"
  /\ request = <<SP>>
  /\ error # Empty
  /\ ~loading

\* C10: while a call is in flight result and error are empty, and a
\* completed submission leaves the client rendered (result set, error
\* empty) or errored (error set).
C10_StateMachine ==
  /\ loading => (tutorial = Empty /\ error = Empty)
  /\ (~loading /\ \E i \in Slots : cpc[i] = "done") =>
       \/ tutorial # Empty /\ error = Empty
       \/ error # Empty


\* the client's latest call
LastCall == next - 1

\* the latest call got the proxy's success answer and rendered it
RenderedFromProxy ==
  /\ next > 1
  /\ ~loading
  /\ error = Empty
  /\ cpc[LastCall] = "done"
  /\ pc[LastCall] = "done"
  /\ resp[LastCall] # << >>
  /\ resp[LastCall][1].status = 200
  /\ resp[LastCall][1].kind = "content"

ReturnedText == resp[LastCall][1].content[1].text

\* s with every occurrence of pat deleted, and with it the newline right
\* after the occurrence when eatNewline is set
RECURSIVE Without(_, _, _)
Without(s, pat, eatNewline) ==
  IF s = << >> THEN << >>
  ELSE IF Len(s) >= Len(pat) /\ SubSeq(s, 1, Len(pat)) = pat
       THEN LET after == SubSeq(s, Len(pat) + 1, Len(s))
            IN  IF eatNewline /\ after # << >> /\ after[1] = "\n"
                THEN Without(SubSeq(after, 2, Len(after)), pat, eatNewline)
                ELSE Without(after, pat, eatNewline)
       ELSE <<s[1]>> \o Without(SubSeq(s, 2, Len(s)), pat, eatNewline)

RECURSIVE Trimmed(_)
Trimmed(s) ==
  IF s = << >> THEN s
  ELSE IF s[1] \in {" ", "\n"} THEN Trimmed(SubSeq(s, 2, Len(s)))
  ELSE IF s[Len(s)] \in {" ", "\n"} THEN Trimmed(SubSeq(s, 1, Len(s) - 1))
  ELSE s

FenceOpen == <<"backtick", "backtick", "backtick", "html">>
FenceClose == <<"backtick", "backtick", "backtick">>

\* C11 as stated: the rendered content is the returned text with every
\* code-fence delimiter removed and the surrounding white space trimmed.
C11_FencesRemovedOnly ==
  RenderedFromProxy =>
    tutorial = Trimmed(Without(Without(ReturnedText, FenceOpen, FALSE),
                               FenceClose, FALSE))

\* C11 amended: the rendered content is the returned text with every
\* code-fence delimiter removed together with one newline right after it,
\* then trimmed; the fenced <h1>X</h1> renders as <h1>X</h1> and text
\* without fences is only trimmed.
C11_FencesAndNewlineRemoved ==
  RenderedFromProxy =>
    /\ tutorial = Trimmed(Without(Without(ReturnedText, FenceOpen, TRUE),
                                  FenceClose, TRUE))
    /\ ReturnedText = FencedText => tutorial = <<"<h1>X</h1>">>
    /\ ReturnedText = <<"<h1>X</h1>">> => tutorial = <<"<h1>X</h1>">>

\* the fenced text of the claim was returned and rendered
C11_Witness ==
  /\ RenderedFromProxy
  /\ ReturnedText = FencedText
  /\ tutorial = <<"<h1>X</h1>">>


\* C12: with a key configured, list-models answers with the upstream body
\* itself when it parses and with {raw: body text} when it does not; a body
\* that does not parse never gives an error response.
C12_ListPassThroughOrRaw ==
  \A i \in Slots :
    (kind[i] = "list" /\ Done(i) /\ apiKey # "") =>
      /\ upBody[i].kind = "json" =>
           resp[i] = <<[status |-> 200, kind |-> "passthrough", error |-> "",
                        content |-> << >>, up |-> upBody[i]]>>
      /\ upBody[i].kind = "text" =>
           resp[i] = <<[status |-> 200, kind |-> "raw", error |-> "",
                        content |-> << >>, up |-> upBody[i]]>>

\* one listing passed through and one wrapped as raw text
C12_Witness ==
  \E i, j \in Slots :
    /\ kind[i] = "list" /\ Done(i) /\ upBody[i].kind = "json"
    /\ resp[i][1].kind = "passthrough"
    /\ kind[j] = "list" /\ Done(j) /\ upBody[j].kind = "text"
    /\ resp[j][1].kind = "raw"

\* the text of the first part of the first candidate, when there is one
OwnUpstreamTexts(i) ==
  IF /\ upBody[i].kind = "json"
     /\ upBody[i].hasCandidates
     /\ upBody[i].candidates # << >>
     /\ upBody[i].candidates[1].hasContent
     /\ upBody[i].candidates[1].hasParts
     /\ upBody[i].candidates[1].parts # << >>
     /\ upBody[i].candidates[1].parts[1].hasText
  THEN {upBody[i].candidates[1].parts[1].text}
  ELSE {}

GenAnswered(i) == kind[i] = "gen" /\ Done(i) /\ resp[i] # << >>

\* C13: with requests handled concurrently, the prompt sent and the answer
\* of each generate-tutorial request depend on that request's own topic,
\* the key and its own upstream outcome only: requests with the same own
\* inputs get the same answer, and the status, the text and the message of
\* an answer are those of the request's own upstream response.
C13_OwnInputsOnly ==
  \A i \in Slots :
    (apiKey # "" /\ GenAnswered(i)) =>
      /\ \A j \in Slots :
           (GenAnswered(j) /\ body[j] = body[i] /\ fetches[j] = fetches[i]
              /\ upStatus[j] = upStatus[i] /\ upBody[j] = upBody[i]) =>
             resp[j] = resp[i]
      /\ \A n \in 1..Len(fetches[i]) :
           /\ fetches[i][n].key = apiKey
           /\ body[i].hasRequest => fetches[i][n].topic = body[i].request
      /\ \/ resp[i][1].status = 500
         \/ resp[i][1].status = 200 /\ ResponseOk(upStatus[i])
         \/ resp[i][1].status = upStatus[i] /\ ~ResponseOk(upStatus[i])
      /\ resp[i][1].kind = "content" =>
           resp[i][1].content[1].text \in
             OwnUpstreamTexts(i) \cup {<<"Sorry, could not generate tutorial.">>}
      /\ (resp[i][1].kind = "error" /\ resp[i][1].status # 500) =>
           resp[i][1].error \in {upBody[i].message, "API request failed"}

\* two requests with different topics and different upstream outcomes, each
\* answered with its own
C13_Witness ==
  /\ apiKey # ""
  /\ \E i, j \in Slots :
       /\ GenAnswered(i) /\ GenAnswered(j)
       /\ HasTopic(body[i]) /\ HasTopic(body[j]) /\ body[i] # body[j]
       /\ fetches[i][1].topic # fetches[j][1].topic
       /\ upStatus[i] = 200 /\ upBody[i] = UpWithText(FencedText)
       /\ resp[i][1].content[1].text = FencedText
       /\ upStatus[j] = 429 /\ upBody[j] = UpErrorQuota
       /\ resp[j][1].status = 429 /\ resp[j][1].error = "Quota exceeded"

\* the upstream body is an object without a usable text in the first part
\* of the first candidate
NoUsableText(b) ==
  /\ b.kind = "json"
  /\ ~b.isNull
  /\ \/ ~b.hasCandidates
     \/ b.candidates = << >>
     \/ ~b.candidates[1].hasContent
     \/ ~b.candidates[1].hasParts
     \/ b.candidates[1].parts = << >>
     \/ ~b.candidates[1].parts[1].hasText
     \/ b.candidates[1].parts[1].text = << >>

\* C14: an upstream success without a usable first-candidate text, in any
\* shape, is answered with a success status and the fallback text, never
\* with an error.
C14_EveryShapeFallsBack ==
  \A i \in Slots :
    (kind[i] = "gen" /\ Done(i) /\ ResponseOk(upStatus[i])
       /\ NoUsableText(upBody[i])) =>
      /\ Len(resp[i]) = 1
      /\ resp[i][1].status = 200
      /\ resp[i][1].kind = "content"
      /\ resp[i][1].content =
           <<[type |-> "text", text |-> <<"Sorry, could not generate tutorial.">>]>>

\* the latest submission has run to its end
Completed ==
  /\ next > 1
  /\ ~loading
  /\ cpc[LastCall] = "done"

\* the step that ends call i
Ends(i) == cpc[i] # "done" /\ cpc'[i] = "done"

\* the fetch of call i rejects in this step
Rejected(i) == cpc[i] = "awaitFetch"

\* the response of call i has a non-success status
NonSuccess(i) == cpc[i] = "awaitJson" /\ ~ResponseOk(cresp[i].status)

\* the body of the response of call i is not JSON
Unparseable(i) == cpc[i] = "awaitJson" /\ cresp[i].kind = "text"

\* the body of the response of call i has no content sequence
NoContent(i) == cpc[i] = "awaitJson" /\ cresp[i].kind # "content"

FailedSubmission(i) ==
  Rejected(i) \/ NonSuccess(i) \/ Unparseable(i) \/ NoContent(i)

\* "Error: <message>. Check the browser console for details."
IsErrorString(e) ==
  /\ Len(e) = 3
  /\ e[1] = "Error: "
  /\ e[2] # ""
  /\ e[3] = ". Check the browser console for details."

\* the paragraph in the error colour around e
Paragraph(e) == <<"<p style=\"color: #ef4444;\">">> \o e \o <<"</p>">>

\* C15 as stated: after every completed submission the error is
\* "Error: <message>. Check the browser console for details." or empty,
\* and it is non-empty exactly when the rendered result is that same
\* message.
C15_ResultIsErrorMessage ==
  Completed =>
    /\ error = Empty \/ IsErrorString(error)
    /\ (error # Empty) <=> (tutorial = error)

\* C15: a submission that fails (non-success status, unparseable body,
\* rejected call, success body without a content sequence) ends with error
\* set to "Error: <message>. Check the browser console for details." and
\* the result set to that message inside a paragraph element in the error
\* colour; a submission that succeeds ends with an empty error and a
\* result that is no such paragraph.
C15_ErrorWrappedInParagraph ==
  [][\A i \in Slots :
       Ends(i) =>
         /\ ~loading'
         /\ IF FailedSubmission(i)
            THEN /\ IsErrorString(error')
                 /\ tutorial' = Paragraph(error')
                 /\ Rejected(i) => error'[2] = "fetch failed"
                 /\ Unparseable(i) => error'[2] = "Unexpected token in JSON"
                 /\ (NonSuccess(i) /\ cresp[i].kind = "error"
                       /\ cresp[i].error # "") => error'[2] = cresp[i].error
            ELSE /\ error' = Empty
                 /\ (tutorial' = Empty
                       \/ tutorial'[1] # "<p style=\"color: #ef4444;\">")]_vars

\* two submissions ran to their end: the first was rendered, the second
\* got the proxy's error answer and shows it wrapped in the paragraph
C15_Witness ==
  /\ next > 2
  /\ Completed
  /\ pc[LastCall] = "done"
  /\ resp[LastCall] # << >>
  /\ resp[LastCall][1].status = 429
  /\ error = <<"Error: ", "Quota exceeded", ". Check the browser console for details.">>
  /\ tutorial = Paragraph(error)
  /\ tutorial # error

====
